---- MODULE Spec2Model ----
(***************************************************************************)
(* Model of plot_time_compexity.py: the loader, the six plot generators,   *)
(* the summary writer and main().                                          *)
(*                                                                         *)
(* A dataset (pandas DataFrame) is a sequence of records with the fields   *)
(* Graph, Algorithm, Vertices, Edges, Time, Operations, Cost (the columns  *)
(* Graph, Algorithm, Vertices, Edges, Time(ms), Operations, MST Cost).     *)
(* A real number produced by a division is an exact fraction               *)
(* [num, den] in lowest terms; den = 0 encodes the IEEE results of a       *)
(* division by zero (num = 0: NaN, num = 1: inf).                          *)
(* An artifact's content is the data the generator hands to matplotlib or  *)
(* writes to the text file.                                                *)
(***************************************************************************)
EXTENDS Integers, Sequences, FiniteSets, TLC

VARIABLES
    csv,        \* the rows of the input file (never changes)
    df,         \* the dataset main holds (<<>> before the load and when it failed)
    loaded,     \* load_csv_data returned a DataFrame (not None)
    pc,         \* main's position
    run,        \* number of the current invocation of main
    files,      \* output directory: file name -> content, for the files present
    written,    \* file name -> number of times this run wrote it
    raised,     \* the generator whose exception main caught in this run, or "none"
    invoked,    \* the generators invoked in this run
    allSaved    \* this run printed the final "All plots saved" line

vars == <<csv, df, loaded, pc, run, files, written, raised, invoked, allSaved>>

-----------------------------------------------------------------------------
(* Bounds of the input space.                                              *)

MaxGraphs == 2
MaxGraphsFew == 1
MaxVertices == 3
MaxTime == 2
MaxRuns == 2

-----------------------------------------------------------------------------
(* Arithmetic.                                                             *)

Abs(x) == IF x < 0 THEN -x ELSE x

RECURSIVE GCD(_, _)
GCD(a, b) == IF b = 0 THEN a ELSE GCD(b, a % b)

\* Python's true division a / b on numbers, as numpy and pandas carry it out
\* (no exception on a zero divisor: 0/0 is NaN, x/0 is inf).
Div(a, b) ==
    IF b = 0 THEN [num |-> IF a = 0 THEN 0 ELSE 1, den |-> 0]
    ELSE LET g == GCD(Abs(a), Abs(b))
             s == IF b < 0 THEN -1 ELSE 1
         IN  [num |-> (s * a) \div g, den |-> (s * b) \div g]

IsNumber(q) == q.den # 0

\* q < r on fractions with positive denominators.
Less(q, r) == q.num * r.den < r.num * q.den

\* format(q, ".<d>f") for scale = 10^d: the nearest multiple of 1/scale, a tie
\* going to the even one; NaN prints as "nan", kept here as the fraction itself.
RoundTo(q, scale) ==
    IF q.den = 0 THEN q
    ELSE LET n == q.num * scale
             f == n \div q.den
             r == n % q.den
             up == \/ 2 * r > q.den
                   \/ 2 * r = q.den /\ f % 2 = 1
         IN  [num |-> IF up THEN f + 1 ELSE f, den |-> scale]

RECURSIVE SumSeq(_)
SumSeq(s) == IF s = <<>> THEN 0 ELSE Head(s) + SumSeq(Tail(s))

\* Series.mean(): NaN for an empty series.
Mean(s) == Div(SumSeq(s), Len(s))

-----------------------------------------------------------------------------
(* DataFrame operations.                                                   *)

\* df[df['Algorithm'] == alg]: the rows of that algorithm, in the frame's order.
FilterAlgorithm(d, alg) == SelectSeq(d, LAMBDA r : r.Algorithm = alg)

\* d[col].values
Column(d, col) == [i \in 1..Len(d) |-> d[i][col]]

RECURSIVE InsertByVertices(_, _)
InsertByVertices(s, r) ==
    IF s = <<>> THEN <<r>>
    ELSE IF s[Len(s)].Vertices <= r.Vertices THEN Append(s, r)
    ELSE Append(InsertByVertices(SubSeq(s, 1, Len(s) - 1), r), s[Len(s)])

\* The frame left in the file's row order.
SortValuesSkipped(d) == d

\* d.sort_values('Vertices'): ascending by the one key. The order of rows with
\* equal keys is whatever numpy's sort leaves; it is a function of d, here the
\* order the rows have in d (what an insertion sort of a short array leaves).
RECURSIVE SortValues(_)
SortValues(d) ==
    IF d = <<>> THEN <<>>
    ELSE InsertByVertices(SortValues(SubSeq(d, 1, Len(d) - 1)), d[Len(d)])

\* numpy broadcasting of two one-dimensional arrays of lengths m and n.
Broadcastable(m, n) == m = n \/ m = 1 \/ n = 1

\* The length of the result (an array of length 1 stretches to the other's
\* length, also to length 0).
BroadcastLen(m, n) == IF m = 1 THEN n ELSE m

\* Element i of an array of length Len(a) broadcast to a longer one.
At(a, i) == IF Len(a) = 1 THEN a[1] ELSE a[i]

\* numpy.isclose(a, b) with the default rtol = 1e-05 and atol = 1e-08 on whole
\* numbers: |a - b| <= 1e-08 + 1e-05 * |b|, that is |a - b| <= floor(|b| / 10^5).
IsClose(a, b) == Abs(a - b) <= Abs(b) \div 100000

\* numpy.allclose(a, b) for arrays that broadcast.
AllClose(a, b) ==
    \A i \in 1..BroadcastLen(Len(a), Len(b)) : IsClose(At(a, i), At(b, i))

\* sum(a < b) for arrays that broadcast.
CountLess(a, b) ==
    Cardinality({i \in 1..BroadcastLen(Len(a), Len(b)) : At(a, i) < At(b, i)})

-----------------------------------------------------------------------------
(* Input files.                                                            *)

Algorithms == {"Prim", "Kruskal"}

\* What the benchmark recorded for one graph: its size, both running times,
\* by how much Kruskal's cost is off (a gap of 1 is within np.allclose's
\* tolerance for a cost of 100000 or more, outside it below), and which of the
\* two records the file holds.
GraphProfile(v, e, pt, kt, gap, hasP, hasK) ==
    [Vertices |-> v, Edges |-> e, PrimTime |-> pt, KruskalTime |-> kt,
     Gap |-> gap, HasPrim |-> hasP, HasKruskal |-> hasK]

\* Connected simple graphs on v vertices have v-1 .. v(v-1)/2 edges.
EdgeCounts(v) == (v - 1)..((v * (v - 1)) \div 2)

\* Schema-valid graphs: Vertices >= 2, both records present.
ValidProfiles ==
    UNION {{GraphProfile(v, e, pt, kt, gap, TRUE, TRUE) :
                e \in EdgeCounts(v), pt \in 0..MaxTime, kt \in 0..MaxTime,
                gap \in {0, 1}} :
           v \in 2..MaxVertices}

\* A single-vertex graph (Vertices < 2).
SingleVertexProfiles ==
    {GraphProfile(1, 0, pt, 1, 0, TRUE, TRUE) : pt \in {0, MaxTime}}

\* A graph with one of its two records missing from the file.
MissingRecordProfiles ==
    {GraphProfile(2, 1, pt, 1, 0, hasP, ~hasP) : pt \in {0, MaxTime}, hasP \in BOOLEAN}

AllProfiles == ValidProfiles \cup SingleVertexProfiles \cup MissingRecordProfiles

\* A few graphs of each kind, for the specifications that explore more
\* control flow per file.
FewProfiles ==
    {p \in AllProfiles : /\ p.Edges = p.Vertices - 1
                         /\ p.PrimTime \in {0, MaxTime}
                         /\ p.KruskalTime = 1
                         /\ p.Gap = 0}

\* The record of graph g for algorithm alg.
Record(g, alg, p) ==
    LET t == IF alg = "Prim" THEN p.PrimTime ELSE p.KruskalTime
        c == 30000 * (p.Vertices + p.Edges)
    IN  [Graph |-> g, Algorithm |-> alg, Vertices |-> p.Vertices, Edges |-> p.Edges,
         Time |-> t, Operations |-> p.Edges + t * p.Vertices,
         Cost |-> IF alg = "Prim" THEN c ELSE c + p.Gap]

Present(g, alg, prof) ==
    IF alg = "Prim" THEN prof[g].HasPrim ELSE prof[g].HasKruskal

\* The file with graphs 1..n: the Prim records in the order po of the graphs and
\* the Kruskal records in the order ko, alternating.
FileRows(n, prof, po, ko) ==
    LET key(i) == IF i % 2 = 1 THEN <<po[(i + 1) \div 2], "Prim">>
                  ELSE <<ko[i \div 2], "Kruskal">>
        keys == SelectSeq([i \in 1..(2 * n) |-> key(i)],
                          LAMBDA k : Present(k[1], k[2], prof))
    IN  [i \in 1..Len(keys) |-> Record(keys[i][1], keys[i][2], prof[keys[i][1]])]

\* The files with up to maxGraphs graphs drawn from profiles, in every order of
\* the Prim records and every order of the Kruskal records.
InputFiles(profiles, maxGraphs) ==
    UNION {{FileRows(n, prof, po, ko) :
                prof \in [1..n -> profiles],
                po \in Permutations(1..n), ko \in Permutations(1..n)} :
           n \in 1..maxGraphs}

\* The graph identities of a dataset.
GraphsOf(d) == {d[i].Graph : i \in 1..Len(d)}

RowsOf(d, g, alg) == {i \in 1..Len(d) : d[i].Graph = g /\ d[i].Algorithm = alg}

\* The BenchmarkDataset invariant of the data model: every graph has exactly one
\* record per algorithm, Vertices >= 2, Time >= 0.
WellFormed(d) ==
    /\ \A g \in GraphsOf(d) : \A alg \in Algorithms : Cardinality(RowsOf(d, g, alg)) = 1
    /\ \A i \in 1..Len(d) : d[i].Vertices >= 2 /\ d[i].Time >= 0

-----------------------------------------------------------------------------
(* The generators: what each computes from the dataset.                    *)

\* The per-algorithm frames every line plot starts from: filtered, then sorted
\* by Vertices.
SortedFrame(d, alg) == SortValues(FilterAlgorithm(d, alg))

\* ax.plot(frame['Vertices'], frame[col]): the points of one line, in order.
Line(frame, col) == [i \in 1..Len(frame) |-> [x |-> frame[i].Vertices, y |-> frame[i][col]]]

LinePair(d, col) ==
    [Prim |-> Line(SortedFrame(d, "Prim"), col),
     Kruskal |-> Line(SortedFrame(d, "Kruskal"), col)]

\* np.allclose over the two cost columns raises ValueError when they do not
\* broadcast.
CostArraysBroadcast(p, k) == Broadcastable(Len(p), Len(k))

\* The figure of plot_mst_cost_verification: both cost lines and whether the
\* 'All MST costs match' note is drawn.
CostFigure(d) ==
    [lines |-> LinePair(d, "Cost"),
     annotated |-> AllClose(Column(SortedFrame(d, "Prim"), "Cost"),
                            Column(SortedFrame(d, "Kruskal"), "Cost"))]

\* for graph_name, group in df.groupby('Graph'): the rows of one graph.
Group(d, g) == SelectSeq(d, LAMBDA r : r.Graph = g)

Least(S) == CHOOSE x \in S : \A y \in S : x <= y

\* The guard with >= for >.
RatioGuardNonNegative(prim_time) == prim_time >= 0

\* if prim_time > 0
RatioGuard(prim_time) == prim_time > 0

\* The loop of plot_performance_ratio over the groups in ascending key order.
\* .values[0] on an empty selection raises IndexError: the loop stops there.
RECURSIVE RatioLoop(_, _, _)
RatioLoop(d, todo, acc) ==
    IF todo = {} THEN [pairs |-> acc, error |-> FALSE]
    ELSE LET g == Least(todo)
             group == Group(d, g)
             prim == Column(FilterAlgorithm(group, "Prim"), "Time")
             kruskal == Column(FilterAlgorithm(group, "Kruskal"), "Time")
         IN  IF prim = <<>> \/ kruskal = <<>> THEN [pairs |-> acc, error |-> TRUE]
             ELSE LET entry == [v |-> group[1].Vertices, ratio |-> Div(kruskal[1], prim[1])]
                  IN  RatioLoop(d, todo \ {g},
                                IF RatioGuard(prim[1]) THEN Append(acc, entry) ELSE acc)

\* Tuple order of (v, ratio).
PairBefore(a, b) == a.v < b.v \/ (a.v = b.v /\ Less(a.ratio, b.ratio))

RECURSIVE InsertPair(_, _)
InsertPair(s, e) ==
    IF s = <<>> THEN <<e>>
    ELSE IF ~PairBefore(e, s[Len(s)]) THEN Append(s, e)
    ELSE Append(InsertPair(SubSeq(s, 1, Len(s) - 1), e), s[Len(s)])

\* sorted(zip(vertices, ratios)): stable.
RECURSIVE SortedPairs(_)
SortedPairs(s) ==
    IF s = <<>> THEN <<>>
    ELSE InsertPair(SortedPairs(SubSeq(s, 1, Len(s) - 1)), s[Len(s)])

Ratios(d) == RatioLoop(d, GraphsOf(d), <<>>)

\* plot_performance_ratio raises: IndexError in the loop, or ValueError when
\* zip(*sorted_pairs) of no pairs is unpacked into (vertices, ratios).
RatioRaises(d) == Ratios(d).error \/ Ratios(d).pairs = <<>>

\* The bars of the ratio chart, in order: tick label, height, colour.
RatioBars(d) ==
    LET sp == SortedPairs(Ratios(d).pairs)
    IN  [i \in 1..Len(sp) |->
            [v |-> sp[i].v, ratio |-> sp[i].ratio,
             color |-> IF Less(sp[i].ratio, Div(1, 1)) THEN "green" ELSE "red"]]

\* df['Edges'] / (df['Vertices'] * (df['Vertices'] - 1) / 2), row by row.
EdgeDensity(r) == Div(r.Edges, (r.Vertices * (r.Vertices - 1)) \div 2)

\* The copy of the dataset with the Edge_Density column.
WithDensity(d) ==
    [i \in 1..Len(d) |->
        [Graph |-> d[i].Graph, Algorithm |-> d[i].Algorithm, Vertices |-> d[i].Vertices,
         Edges |-> d[i].Edges, Time |-> d[i].Time, Operations |-> d[i].Operations,
         Cost |-> d[i].Cost, Edge_Density |-> EdgeDensity(d[i])]]

Scatter(frame) ==
    [i \in 1..Len(frame) |-> [x |-> frame[i].Edge_Density, y |-> frame[i].Time]]

DensityFigure(d) ==
    [Prim |-> Scatter(FilterAlgorithm(WithDensity(d), "Prim")),
     Kruskal |-> Scatter(FilterAlgorithm(WithDensity(d), "Kruskal"))]

\* ax4.bar(x + width / 2, kruskal_data['Time(ms)'], ...) raises ValueError when
\* the heights do not broadcast against x = np.arange(len(prim_data)).
BarsBroadcast(d) ==
    Broadcastable(Len(FilterAlgorithm(d, "Prim")), Len(FilterAlgorithm(d, "Kruskal")))

CombinedFigure(d) ==
    [time |-> LinePair(d, "Time"),
     operations |-> LinePair(d, "Operations"),
     cost |-> LinePair(d, "Cost"),
     bars |-> [Prim |-> Column(SortedFrame(d, "Prim"), "Time"),
               Kruskal |-> Column(SortedFrame(d, "Kruskal"), "Time"),
               ticks |-> Column(SortedFrame(d, "Prim"), "Vertices")]]

\* The summary's frames: filtered only, in the file's row order.
SummaryFrame(d, alg) == FilterAlgorithm(d, alg)

\* The elementwise < of the two time columns raises when they do not broadcast.
TimesBroadcast(d) ==
    Broadcastable(Len(SummaryFrame(d, "Prim")), Len(SummaryFrame(d, "Kruskal")))

AlgorithmBlock(frame) ==
    [avg_time |-> RoundTo(Mean(Column(frame, "Time")), 100),
     avg_operations |-> RoundTo(Mean(Column(frame, "Operations")), 1),
     total_graphs |-> Len(frame)]

SummaryText(d) ==
    LET p == SummaryFrame(d, "Prim")
        k == SummaryFrame(d, "Kruskal")
    IN  [Prim |-> AlgorithmBlock(p),
         Kruskal |-> AlgorithmBlock(k),
         prim_wins |-> CountLess(Column(p, "Time"), Column(k, "Time")),
         kruskal_wins |-> CountLess(Column(k, "Time"), Column(p, "Time")),
         costs_match |-> AllClose(Column(p, "Cost"), Column(k, "Cost"))]

-----------------------------------------------------------------------------
(* main and its steps.                                                     *)

\* The calls of main's try block, in order.
Order == <<"time", "operations", "cost", "ratio", "density", "combined", "summary">>

Generators == {Order[i] : i \in 1..Len(Order)}

IndexOf(gen) == CHOOSE i \in 1..Len(Order) : Order[i] = gen

\* The position after generator gen returns.
NextStep(gen) == IF IndexOf(gen) = Len(Order) THEN "done" ELSE Order[IndexOf(gen) + 1]

\* A handler around each call instead: main goes on with the next generator.
OnExceptionContinue(gen) == NextStep(gen)

\* The except clause of main: the error is printed and main returns.
OnException(gen) == "done"

FileOf(gen) ==
    CASE gen = "time" -> "execution_time_comparison.png"
      [] gen = "operations" -> "operations_comparison.png"
      [] gen = "cost" -> "mst_cost_verification.png"
      [] gen = "ratio" -> "performance_ratio.png"
      [] gen = "density" -> "edge_density_impact.png"
      [] gen = "combined" -> "comprehensive_comparison.png"
      [] gen = "summary" -> "summary_statistics.txt"

Artifacts == {FileOf(gen) : gen \in Generators}

\* Whether generator gen raises on dataset d.
Raises(gen, d) ==
    CASE gen = "cost" -> ~CostArraysBroadcast(SortedFrame(d, "Prim"), SortedFrame(d, "Kruskal"))
      [] gen = "ratio" -> RatioRaises(d)
      [] gen = "combined" -> ~BarsBroadcast(d)
      [] gen = "summary" -> ~TimesBroadcast(d)
      [] OTHER -> FALSE

\* What generator gen saves when it does not raise.
Output(gen, d) ==
    CASE gen = "time" -> LinePair(d, "Time")
      [] gen = "operations" -> LinePair(d, "Operations")
      [] gen = "cost" -> CostFigure(d)
      [] gen = "ratio" -> RatioBars(d)
      [] gen = "density" -> DensityFigure(d)
      [] gen = "combined" -> CombinedFigure(d)
      [] gen = "summary" -> SummaryText(d)

\* The Edge_Density column assigned into the caller's frame.
DatasetAfterInPlace(gen, d) == IF gen = "density" THEN WithDensity(d) ELSE d

\* The caller's dataset after generator gen ran: no generator assigns into the
\* frame it is given (plot_edge_density_impact adds its column to a copy).
DatasetAfter(gen, d) == d

NoWrites == [f \in Artifacts |-> 0]

InitWith(inputs) ==
    /\ csv \in inputs
    /\ df = <<>>
    /\ loaded = FALSE
    /\ pc = "load"
    /\ run = 1
    /\ files = <<>>
    /\ written = NoWrites
    /\ raised = "none"
    /\ invoked = {}
    /\ allSaved = FALSE

\* main without the check of the loader's result.
AfterFailedLoadContinue == Order[1]

\* if df is None: return
AfterFailedLoad == "done"

\* load_csv_data and main's check of its result; ok is whether pd.read_csv
\* succeeds on the file.
Load(ok, after) ==
    /\ pc = "load"
    /\ IF ok
       THEN df' = csv /\ loaded' = TRUE /\ pc' = after
       ELSE df' = <<>> /\ loaded' = FALSE /\ pc' = AfterFailedLoad
    /\ UNCHANGED <<csv, run, files, written, raised, invoked, allSaved>>

\* One call of a generator from main's try block. io: saving the artifact
\* fails (savefig or open raises). `after` is main's position when it returns.
\* A generator handed None instead of a DataFrame raises at its first df[...].
Invoke(gen, io, after) ==
    /\ invoked' = invoked \cup {gen}
    /\ df' = IF loaded THEN DatasetAfter(gen, df) ELSE df
    /\ IF ~loaded \/ Raises(gen, df) \/ io
       THEN /\ raised' = gen
            /\ pc' = OnException(gen)
            /\ UNCHANGED <<files, written, allSaved>>
       ELSE /\ files' = (FileOf(gen) :> Output(gen, df)) @@ files
            /\ written' = [written EXCEPT ![FileOf(gen)] = @ + 1]
            /\ pc' = after
            /\ allSaved' = (after = "done")
            /\ UNCHANGED raised
    /\ UNCHANGED <<csv, loaded, run>>

load_csv_data == \E ok \in BOOLEAN : Load(ok, Order[1])

plot_execution_time_comparison ==
    pc = "time" /\ Invoke("time", FALSE, NextStep("time"))

plot_operations_comparison ==
    pc = "operations" /\ Invoke("operations", FALSE, NextStep("operations"))

plot_mst_cost_verification ==
    pc = "cost" /\ Invoke("cost", FALSE, NextStep("cost"))

plot_performance_ratio ==
    pc = "ratio" /\ Invoke("ratio", FALSE, NextStep("ratio"))

plot_edge_density_impact ==
    pc = "density" /\ Invoke("density", FALSE, NextStep("density"))

plot_all_in_one ==
    pc = "combined" /\ Invoke("combined", FALSE, NextStep("combined"))

generate_summary_statistics ==
    pc = "summary" /\ Invoke("summary", FALSE, NextStep("summary"))

\* The script is run again on the same file and output directory.
RunAgain ==
    /\ pc = "done"
    /\ run < MaxRuns
    /\ run' = run + 1
    /\ pc' = "load"
    /\ df' = <<>>
    /\ loaded' = FALSE
    /\ written' = NoWrites
    /\ raised' = "none"
    /\ invoked' = {}
    /\ allSaved' = FALSE
    /\ UNCHANGED <<csv, files>>

Init == InitWith(InputFiles(AllProfiles, MaxGraphs))

Next ==
    \/ load_csv_data
    \/ plot_execution_time_comparison
    \/ plot_operations_comparison
    \/ plot_mst_cost_verification
    \/ plot_performance_ratio
    \/ plot_edge_density_impact
    \/ plot_all_in_one
    \/ generate_summary_statistics
    \/ RunAgain

Spec == Init /\ [][Next]_vars

-----------------------------------------------------------------------------
(* main where saving an artifact may fail (disk full, directory removed or *)
(* not writable): every generator can be the one that raises.              *)

load_or_fail == \E ok \in BOOLEAN : Load(ok, Order[1])

generator_or_error ==
    \E gen \in Generators : \E io \in BOOLEAN :
        pc = gen /\ Invoke(gen, io, NextStep(gen))

InitIO == InitWith(InputFiles(FewProfiles, MaxGraphsFew))

NextIO == load_or_fail \/ generator_or_error \/ RunAgain

SpecIO == InitIO /\ [][NextIO]_vars

-----------------------------------------------------------------------------
(* The same generators called in an arbitrary order, each once.            *)

load_dataset == Load(TRUE, "any")

generator_in_any_order ==
    \E gen \in Generators \ invoked :
        /\ pc = "any"
        /\ Invoke(gen, FALSE, IF invoked \cup {gen} = Generators THEN "done" ELSE "any")

InitAnyOrder == InitWith(InputFiles(FewProfiles, MaxGraphsFew))

NextAnyOrder == load_dataset \/ generator_in_any_order

SpecAnyOrder == InitAnyOrder /\ [][NextAnyOrder]_vars

-----------------------------------------------------------------------------
(* Properties.                                                             *)

TimeFile == FileOf("time")
OperationsFile == FileOf("operations")
CostFile == FileOf("cost")
RatioFile == FileOf("ratio")
DensityFile == FileOf("density")
CombinedFile == FileOf("combined")
SummaryFile == FileOf("summary")

\* This run saved file f.
Saved(f) == written[f] >= 1

\* The record of graph g for algorithm alg, when there is exactly one.
TheRecord(d, g, alg) == d[CHOOSE i \in RowsOf(d, g, alg) : TRUE]

PrimTime(d, g) == TheRecord(d, g, "Prim").Time

KruskalTime(d, g) == TheRecord(d, g, "Kruskal").Time

\* Some graph of d has a Prim record and no Kruskal record.
LacksKruskal(d) ==
    \E g \in GraphsOf(d) : RowsOf(d, g, "Prim") # {} /\ RowsOf(d, g, "Kruskal") = {}

\* C1: once plot_performance_ratio has been called on a dataset in which some
\* graph has a Prim record but no Kruskal record, it has not raised and
\* performance_ratio.png has been written.
C1_RatioSkipsGraphWithoutKruskal ==
    (loaded /\ "ratio" \in invoked /\ LacksKruskal(df)) =>
        (raised # "ratio" /\ Saved(RatioFile))

\* C2: a run of main on a well-formed dataset ends with no generator having
\* raised and each of the seven artifacts written exactly once, and the output
\* directory then holds exactly the seven file names (also after a second run).
C2_WellFormedRunWritesSevenArtifacts ==
    (loaded /\ pc = "done" /\ WellFormed(csv)) =>
        /\ raised = "none"
        /\ \A f \in Artifacts : written[f] = 1
        /\ DOMAIN files = Artifacts

\* The graphs that must appear in the ratio series.
GraphsWithPositivePrimTime(d) == {g \in GraphsOf(d) : PrimTime(d, g) > 0}

\* C3: when performance_ratio.png is written, its bars are exactly one per
\* graph with Prim time > 0, each bar's height that graph's Kruskal time divided
\* by its Prim time; no bar comes from a graph with Prim time 0 and no height is
\* the result of a division by zero.
C3_RatioSeriesExcludesZeroPrimTime ==
    Saved(RatioFile) =>
        LET bars == files[RatioFile]
            G == GraphsWithPositivePrimTime(df)
        IN  /\ Len(bars) = Cardinality(G)
            /\ \A i \in 1..Len(bars) : IsNumber(bars[i].ratio)
            /\ \E f \in [1..Len(bars) -> G] :
                  /\ \A i, j \in 1..Len(bars) : f[i] = f[j] => i = j
                  /\ \A i \in 1..Len(bars) :
                        /\ PrimTime(df, f[i]) > 0
                        /\ bars[i].ratio.num * PrimTime(df, f[i])
                             = bars[i].ratio.den * KruskalTime(df, f[i])

\* A ratio chart was written for a dataset with a graph whose Prim time is 0
\* and one whose Kruskal time is half its Prim time.
C3_Witness ==
    /\ Saved(RatioFile)
    /\ \E g \in GraphsOf(df) : PrimTime(df, g) = 0
    /\ \E i \in 1..Len(files[RatioFile]) : files[RatioFile][i].ratio = [num |-> 1, den |-> 2]

\* C4: while load_csv_data has returned no dataset, no generator has been
\* invoked and no artifact has been written in the run; main ends there.
C4_FailedLoadWritesNothing ==
    (~loaded /\ pc # "load") =>
        /\ pc = "done"
        /\ df = <<>>
        /\ invoked = {}
        /\ \A f \in Artifacts : written[f] = 0

\* A second run whose load failed, over a directory the first run filled.
C4_Witness ==
    /\ ~loaded /\ pc = "done" /\ run = 2
    /\ DOMAIN files = Artifacts

\* C5: the summary's 'Prim faster' count is the number of graphs whose Prim
\* time is below the same graph's Kruskal time, and 'Kruskal faster' the number
\* whose Kruskal time is below its Prim time, whatever the order of the rows.
C5_WinCountsArePerGraph ==
    (Saved(SummaryFile) /\ WellFormed(df)) =>
        /\ files[SummaryFile].prim_wins
             = Cardinality({g \in GraphsOf(df) : PrimTime(df, g) < KruskalTime(df, g)})
        /\ files[SummaryFile].kruskal_wins
             = Cardinality({g \in GraphsOf(df) : KruskalTime(df, g) < PrimTime(df, g)})

\* The dataset with its rows in the order perm.
Permuted(d, perm) == [i \in 1..Len(d) |-> d[perm[i]]]

RowOrders(d) == Permutations(1..Len(d))

NonDecreasing(xs) == \A i \in 1..(Len(xs) - 1) : xs[i] <= xs[i + 1]

Xs(line) == [i \in 1..Len(line) |-> line[i].x]

LineOrdered(pair) == NonDecreasing(Xs(pair.Prim)) /\ NonDecreasing(Xs(pair.Kruskal))

\* The per-algorithm line series of the saved figures.
SavedLines ==
    (IF Saved(TimeFile) THEN {files[TimeFile]} ELSE {})
    \cup (IF Saved(OperationsFile) THEN {files[OperationsFile]} ELSE {})
    \cup (IF Saved(CostFile) THEN {files[CostFile].lines} ELSE {})
    \cup (IF Saved(CombinedFile)
          THEN {files[CombinedFile].time, files[CombinedFile].operations,
                files[CombinedFile].cost}
          ELSE {})

\* What this run saved for the comparative series is what it would have saved
\* had the rows of the file come in the order perm.
SameSeriesFor(perm) ==
    LET d == Permuted(df, perm)
    IN  /\ Saved(TimeFile) => files[TimeFile] = LinePair(d, "Time")
        /\ Saved(OperationsFile) => files[OperationsFile] = LinePair(d, "Operations")
        /\ Saved(CostFile) => files[CostFile].lines = LinePair(d, "Cost")
        /\ Saved(CombinedFile) =>
              /\ files[CombinedFile].time = LinePair(d, "Time")
              /\ files[CombinedFile].operations = LinePair(d, "Operations")
              /\ files[CombinedFile].cost = LinePair(d, "Cost")

SameRatioSeriesFor(perm) ==
    Saved(RatioFile) => files[RatioFile] = RatioBars(Permuted(df, perm))

SameXsFor(perm) ==
    LET d == Permuted(df, perm)
    IN  \A col \in {"Time", "Operations", "Cost"} :
            /\ Xs(LinePair(d, col).Prim) = Xs(LinePair(df, col).Prim)
            /\ Xs(LinePair(d, col).Kruskal) = Xs(LinePair(df, col).Kruskal)

SeriesOrdered ==
    /\ \A pair \in SavedLines : LineOrdered(pair)
    /\ Saved(RatioFile) =>
          NonDecreasing([i \in 1..Len(files[RatioFile]) |-> files[RatioFile][i].v])

\* No two records of one algorithm have the same vertex count.
DistinctVertexCounts(d) ==
    \A i, j \in 1..Len(d) :
        (i # j /\ d[i].Algorithm = d[j].Algorithm) => d[i].Vertices # d[j].Vertices

\* C6 as stated, on well-formed datasets: at the end of a run every saved
\* comparative series is in non-decreasing Vertices order and is the sequence
\* of points the run would have saved for any other order of the input rows,
\* also when graphs share a vertex count.
C6_SeriesSameForEveryRowOrder ==
    (loaded /\ pc = "done" /\ WellFormed(df)) =>
        /\ SeriesOrdered
        /\ \A perm \in RowOrders(df) : SameSeriesFor(perm) /\ SameRatioSeriesFor(perm)

\* C6, amended: at the end of a run every saved comparative series is in
\* non-decreasing Vertices order; for every other order of the input rows the
\* line series have the same sequence of Vertices and the ratio bars are the
\* same bars; and the line series are the same sequences of points when no two
\* records of one algorithm have the same vertex count.
C6_SeriesSameWhenVertexCountsDistinct ==
    (loaded /\ pc = "done") =>
        /\ SeriesOrdered
        /\ \A perm \in RowOrders(df) :
              /\ SameXsFor(perm)
              /\ SameRatioSeriesFor(perm)
              /\ DistinctVertexCounts(df) => SameSeriesFor(perm)

\* A complete run on a file whose Prim records come in descending Vertices
\* order, with distinct vertex counts.
C6_Witness ==
    /\ loaded /\ pc = "done" /\ raised = "none"
    /\ DistinctVertexCounts(df)
    /\ LET p == FilterAlgorithm(df, "Prim")
       IN  Len(p) = 2 /\ p[1].Vertices > p[2].Vertices /\ p[1].Time # p[2].Time

\* What a generator that has run and not raised has saved.
SavedBy(gen) == files[FileOf(gen)]

C8_DensityNeverDividesByZero ==
    Saved(DensityFile) =>
        /\ \A i \in 1..Len(df) : df[i].Vertices >= 2
        /\ \A alg \in Algorithms :
              \A i \in 1..Len(files[DensityFile][alg]) :
                  IsNumber(files[DensityFile][alg][i].x)

\* The generators main has called form an initial segment of its fixed order.
Prefix(k) == {Order[i] : i \in 1..k}

\* C9: the generators are invoked in main's order; when one raises, main has
\* ended without invoking a later one and without printing the final line, the
\* artifacts of the earlier ones are in the output directory, written once each,
\* and no later artifact was written.
C9_FailureAbortsRemainingGenerators ==
    /\ \E k \in 0..Len(Order) : invoked = Prefix(k)
    /\ pc \in Generators => invoked = Prefix(IndexOf(pc) - 1)
    /\ raised # "none" =>
          LET k == IndexOf(raised)
          IN  /\ pc = "done"
              /\ invoked = Prefix(k)
              /\ ~allSaved
              /\ \A i \in 1..(k - 1) :
                    written[FileOf(Order[i])] = 1 /\ FileOf(Order[i]) \in DOMAIN files
              /\ \A i \in k..Len(Order) : written[FileOf(Order[i])] = 0

\* The combined figure could not be saved, in a first run.
C9_Witness ==
    /\ raised = "combined" /\ pc = "done" /\ run = 1
    /\ DOMAIN files = {FileOf(Order[i]) : i \in 1..5}

\* C10: on a well-formed dataset the summary reports 'All MST costs match'
\* exactly when the cost figure carries the note, and both do when each graph's
\* Prim cost equals its Kruskal cost.
C10_VerdictsAgree ==
    (Saved(SummaryFile) /\ Saved(CostFile) /\ WellFormed(df)) =>
        /\ files[SummaryFile].costs_match = files[CostFile].annotated
        /\ (\A g \in GraphsOf(df) :
                TheRecord(df, g, "Prim").Cost = TheRecord(df, g, "Kruskal").Cost)
              => (files[SummaryFile].costs_match /\ files[CostFile].annotated)

====
